---- MODULE Spec2Model ----
(***************************************************************************)
(* Model of travis-size-report's browser side:                             *)
(*   - src/ui/travis.ts: TravisFetcher.newlineDelimtedJsonStream, the      *)
(*     async generator that resolves two builds, diffs their file         *)
(*     listings and yields a header followed by one record per file;       *)
(*   - src/ui/infocard-ui.ts: the info cards (frame-coalesced updates and  *)
(*     the container card's pie chart and breakdown table).                *)
(* The build differ (cli/compare-travis getChanges) is not part of the     *)
(* sources at hand and is modelled from section 4.2 of the specification.  *)
(***************************************************************************)
EXTENDS Integers, Sequences, FiniteSets, TLC

\* Largest size / gzipSize a file of a snapshot may have.
MaxSize == 1

(***************************************************************************)
(* Strings are sequences of characters, so that basename really cuts.      *)
(***************************************************************************)
Paths == { <<"a">>, <<"d", "/", "a">> }

Sizes == 0..MaxSize

\* FileData of cli/compare-travis: one build artifact.
FileData == [path : Paths, size : Sizes, gzipSize : Sizes]

RECURSIVE SeqsUpTo(_, _)
SeqsUpTo(S, n) ==
  IF n = 0 THEN { <<>> }
  ELSE LET shorter == SeqsUpTo(S, n - 1)
       IN shorter \cup { Append(s, x) : s \in shorter, x \in S }

\* A build's file listing: paths are unique within one listing.
Snapshots ==
  { s \in SeqsUpTo(FileData, Cardinality(Paths)) :
      \A i, j \in 1..Len(s) : s[i].path = s[j].path => i = j }

VARIABLES
  pc,        \* position of the async generator newlineDelimtedJsonStream
  builds,    \* how many build infos getBuildInfo resolved with
  previous,  \* file listing of the previous build
  current,   \* file listing of the current build
  changes,   \* BuildChanges returned by getChanges
  meta,      \* header built by transformChanges
  entries,   \* records built by transformChanges
  out,       \* everything the generator has yielded so far, in order
  idx,       \* how many of entries yield* has handed out
  pendingFrame,    \* Infocard._pendingFrame, shared by both cards (0: undefined)
  nextHandle,      \* the handle the next requestAnimationFrame returns
  frameCallbacks,  \* the browser's list of animation frame callbacks
  diffMode,        \* state.has('diff_mode')
  containerCard,   \* _containerInfo and its part of the page
  symbolCard,      \* _symbolInfo and its part of the page
  lastCall,        \* history: card and node of the latest updateInfocard call
  ranLog,          \* history: the callbacks the latest animation frame ran
  cancelled,       \* history: handle and card of the callbacks cancelled while queued
  everRan          \* history: handles whose callback has run

streamVars == <<pc, builds, previous, current, changes, meta, entries, out, idx>>

cardVars ==
  <<pendingFrame, nextHandle, frameCallbacks, diffMode, containerCard, symbolCard,
    lastCall, ranLog, cancelled, everRan>>

vars == <<streamVars, cardVars>>

(***************************************************************************)
(* travis.ts                                                               *)
(***************************************************************************)

\* String.prototype.lastIndexOf for a one-character needle: the 0-based index
\* of its last occurrence, -1 when there is none.
RECURSIVE lastIndexOfFrom(_, _, _)
lastIndexOfFrom(path, ch, i) ==
  IF i = 0 THEN -1
  ELSE IF path[i] = ch THEN i - 1
  ELSE lastIndexOfFrom(path, ch, i - 1)

lastIndexOf(path, ch) == lastIndexOfFrom(path, ch, Len(path))

\* String.prototype.substring(start) with a 0-based start.
substring(path, start) == SubSeq(path, start + 1, Len(path))

basename(path) == substring(path, lastIndexOf(path, "/") + 1)

\* The symbol type every record of a diff report carries.
CODE_SYMBOL_TYPE == "code"

NoChanges ==
  [newItems |-> <<>>, deletedItems |-> <<>>, sameItems |-> <<>>, changedItems |-> <<>>]

(***************************************************************************)
(* Build differ, from section 4.2: a lookup of the previous listing by     *)
(* path; each current record is added (no match), unchanged (match, both   *)
(* sizes equal) or changed (match, some size differs) and its match leaves *)
(* the lookup; what stays in the lookup is removed.  changedItems is a Map *)
(* from the old record to the new one: it iterates in insertion order.     *)
(***************************************************************************)
RECURSIVE SelectPath(_, _)
SelectPath(lookup, path) ==
  IF lookup = <<>> THEN <<>>
  ELSE IF Head(lookup).path = path THEN <<Head(lookup)>>
  ELSE SelectPath(Tail(lookup), path)

RECURSIVE DeletePath(_, _)
DeletePath(lookup, path) ==
  IF lookup = <<>> THEN <<>>
  ELSE IF Head(lookup).path = path THEN DeletePath(Tail(lookup), path)
  ELSE <<Head(lookup)>> \o DeletePath(Tail(lookup), path)

RECURSIVE Classify(_, _, _)
Classify(lookup, cur, acc) ==
  IF cur = <<>> THEN [acc EXCEPT !.deletedItems = lookup]
  ELSE LET f == Head(cur)
           hit == SelectPath(lookup, f.path)
       IN IF hit = <<>>
          THEN Classify(lookup, Tail(cur),
                        [acc EXCEPT !.newItems = Append(@, f)])
          ELSE IF hit[1].size = f.size /\ hit[1].gzipSize = f.gzipSize
          THEN Classify(DeletePath(lookup, f.path), Tail(cur),
                        [acc EXCEPT !.sameItems = Append(@, f)])
          ELSE Classify(DeletePath(lookup, f.path), Tail(cur),
                        [acc EXCEPT !.changedItems = Append(@, <<hit[1], f>>)])

\* A differ that forgets to consume the matched path from the lookup.
RECURSIVE ClassifyKeepMatched(_, _, _)
ClassifyKeepMatched(lookup, cur, acc) ==
  IF cur = <<>> THEN [acc EXCEPT !.deletedItems = lookup]
  ELSE LET f == Head(cur)
           hit == SelectPath(lookup, f.path)
       IN IF hit = <<>>
          THEN ClassifyKeepMatched(lookup, Tail(cur),
                        [acc EXCEPT !.newItems = Append(@, f)])
          ELSE IF hit[1].size = f.size /\ hit[1].gzipSize = f.gzipSize
          THEN ClassifyKeepMatched(lookup, Tail(cur),
                        [acc EXCEPT !.sameItems = Append(@, f)])
          ELSE ClassifyKeepMatched(lookup, Tail(cur),
                        [acc EXCEPT !.changedItems = Append(@, <<hit[1], f>>)])

getChangesKeepMatched(prev, cur) == ClassifyKeepMatched(prev, cur, NoChanges)

getChanges(prev, cur) == Classify(prev, cur, NoChanges)

\* One record of the report (FileEntry with its single symbol).
Entry(path, b, g, u) ==
  [p |-> path,
   s |-> << [n |-> basename(path), b |-> b, g |-> g, t |-> CODE_SYMBOL_TYPE, u |-> u] >>]

\* An added record whose compressed delta repeats the uncompressed size.
newEntryGzipFromSize(data) == Entry(data.path, data.size, data.size, 1)

newEntry(data) == Entry(data.path, data.size, data.gzipSize, 1)

\* A removed record that keeps the unit of the other groups.
deletedEntryUnitPlus(data) == Entry(data.path, -data.size, -data.gzipSize, 1)

deletedEntry(data) == Entry(data.path, -data.size, -data.gzipSize, -1)

\* An unchanged record that reports its size as a delta.
sameEntryWithSize(data) == Entry(data.path, data.size, data.gzipSize, 1)

sameEntry(data) == Entry(data.path, 0, 0, 1)

\* A changed record with the subtraction the wrong way round.
changedEntryOldMinusNew(pair) ==
  Entry(pair[2].path, pair[1].size - pair[2].size,
        pair[1].gzipSize - pair[2].gzipSize, 1)

changedEntry(pair) ==
  Entry(pair[2].path, pair[2].size - pair[1].size,
        pair[2].gzipSize - pair[1].gzipSize, 1)

\* A total that counts both records of a changed pair.
transformTotalPairsTwice(c) ==
  Len(c.newItems) + Len(c.deletedItems) + Len(c.sameItems) + 2 * Len(c.changedItems)

transformTotal(c) ==
  Len(c.newItems) + Len(c.deletedItems) + Len(c.sameItems) + Len(c.changedItems)

\* A transformer that walks the changed files before the other groups.
transformEntriesChangedFirst(c) ==
  [i \in 1..Len(c.changedItems) |-> changedEntry(c.changedItems[i])]
    \o [i \in 1..Len(c.newItems) |-> newEntry(c.newItems[i])]
    \o [i \in 1..Len(c.deletedItems) |-> deletedEntry(c.deletedItems[i])]
    \o [i \in 1..Len(c.sameItems) |-> sameEntry(c.sameItems[i])]

transformEntries(c) ==
  [i \in 1..Len(c.newItems) |-> newEntry(c.newItems[i])]
    \o [i \in 1..Len(c.deletedItems) |-> deletedEntry(c.deletedItems[i])]
    \o [i \in 1..Len(c.sameItems) |-> sameEntry(c.sameItems[i])]
    \o [i \in 1..Len(c.changedItems) |-> changedEntry(c.changedItems[i])]

transformChanges(c) ==
  [meta |-> [total |-> transformTotal(c), diff_mode |-> TRUE],
   entries |-> transformEntries(c)]

NoMeta == [total |-> -1, diff_mode |-> FALSE]

StreamInit ==
  /\ pc = "start"
  /\ builds = -1
  /\ previous = <<>>
  /\ current = <<>>
  /\ changes = NoChanges
  /\ meta = NoMeta
  /\ entries = <<>>
  /\ out = <<>>
  /\ idx = 0

\* The consumer's first next(): the body runs up to `await getBuildInfo(...)`.
CallGetBuildInfo ==
  /\ pc = "start"
  /\ pc' = "awaitBuildInfo"
  /\ UNCHANGED <<builds, previous, current, changes, meta, entries, out, idx>>
  /\ UNCHANGED cardVars

\* getBuildInfo rejects (network failure, NotFoundError): the generator throws.
BuildInfoRejected ==
  /\ pc = "awaitBuildInfo"
  /\ pc' = "error"
  /\ UNCHANGED <<builds, previous, current, changes, meta, entries, out, idx>>
  /\ UNCHANGED cardVars

\* A generator that goes on to getChanges whatever getBuildInfo resolved with.
BuildInfoResolvedUnchecked ==
  /\ pc = "awaitBuildInfo"
  /\ \E n \in 0..2 :
       /\ builds' = n
       /\ pc' = "awaitChanges"
  /\ UNCHANGED <<previous, current, changes, meta, entries, out, idx>>
  /\ UNCHANGED cardVars

\* getBuildInfo resolves with n builds, newest first; a missing previous or
\* current build info throws, otherwise getChanges is called and awaited.
BuildInfoResolved ==
  /\ pc = "awaitBuildInfo"
  /\ \E n \in 0..2 :
       /\ builds' = n
       /\ pc' = IF n < 2 THEN "error" ELSE "awaitChanges"
  /\ UNCHANGED <<previous, current, changes, meta, entries, out, idx>>
  /\ UNCHANGED cardVars

\* getChanges rejects (a file listing could not be fetched).
ChangesRejected ==
  /\ pc = "awaitChanges"
  /\ pc' = "error"
  /\ UNCHANGED <<builds, previous, current, changes, meta, entries, out, idx>>
  /\ UNCHANGED cardVars

\* A generator that hands out the records without the header before them.
ChangesResolvedNoHeader ==
  /\ pc = "awaitChanges"
  /\ \E prev \in Snapshots, cur \in Snapshots :
       LET c == getChanges(prev, cur)
           t == transformChanges(c)
       IN /\ previous' = prev
          /\ current' = cur
          /\ changes' = c
          /\ meta' = t.meta
          /\ entries' = t.entries
          /\ out' = out
  /\ pc' = "yielding"
  /\ UNCHANGED <<builds, idx>>
  /\ UNCHANGED cardVars

\* getChanges resolves with the diff of the two listings; transformChanges
\* runs and the generator yields meta.
ChangesResolved ==
  /\ pc = "awaitChanges"
  /\ \E prev \in Snapshots, cur \in Snapshots :
       LET c == getChanges(prev, cur)
           t == transformChanges(c)
       IN /\ previous' = prev
          /\ current' = cur
          /\ changes' = c
          /\ meta' = t.meta
          /\ entries' = t.entries
          /\ out' = Append(out, t.meta)
  /\ pc' = "yielding"
  /\ UNCHANGED <<builds, idx>>
  /\ UNCHANGED cardVars

\* next() while yield* has entries left: the next record is yielded.
YieldEntry ==
  /\ pc = "yielding"
  /\ idx < Len(entries)
  /\ idx' = idx + 1
  /\ out' = Append(out, entries[idx + 1])
  /\ UNCHANGED <<pc, builds, previous, current, changes, meta, entries>>
  /\ UNCHANGED cardVars

\* next() after the last record: the generator returns.
Return ==
  /\ pc = "yielding"
  /\ idx = Len(entries)
  /\ pc' = "done"
  /\ UNCHANGED <<builds, previous, current, changes, meta, entries, out, idx>>
  /\ UNCHANGED cardVars

StreamNext ==
  \/ CallGetBuildInfo
  \/ BuildInfoRejected
  \/ BuildInfoResolved
  \/ ChangesRejected
  \/ ChangesResolved
  \/ YieldEntry
  \/ Return



(***************************************************************************)
(* JavaScript numbers.  The angles of the pie chart are IEEE 754 doubles:  *)
(* a 53-bit significand m and an exponent e stand for m * 2^e, and every   *)
(* division, product and sum rounds to the nearest double, ties to even.   *)
(* A significand does not fit TLC's integers, so it is a little-endian     *)
(* sequence of limbs in base 2^14 with no leading zero limb.               *)
(***************************************************************************)
LimbBits == 14

Base == 2 ^ LimbBits

\* Bits of a double's significand.
MantissaBits == 53

RECURSIVE BNNorm(_)
BNNorm(a) ==
  IF a = <<>> THEN <<>>
  ELSE IF a[Len(a)] = 0 THEN BNNorm(SubSeq(a, 1, Len(a) - 1))
  ELSE a

RECURSIVE BNAddC(_, _, _)
BNAddC(a, b, carry) ==
  IF a = <<>> /\ b = <<>> THEN (IF carry = 0 THEN <<>> ELSE <<carry>>)
  ELSE LET x == IF a = <<>> THEN 0 ELSE Head(a)
           y == IF b = <<>> THEN 0 ELSE Head(b)
           sum == x + y + carry
       IN <<sum % Base>> \o
          BNAddC(IF a = <<>> THEN <<>> ELSE Tail(a),
                 IF b = <<>> THEN <<>> ELSE Tail(b), sum \div Base)

BNAdd(a, b) == BNAddC(a, b, 0)

\* a * k + carry for a small k (k, carry < Base).
RECURSIVE BNMulSmall(_, _, _)
BNMulSmall(a, k, carry) ==
  IF a = <<>> THEN (IF carry = 0 THEN <<>> ELSE <<carry>>)
  ELSE LET prod == Head(a) * k + carry
       IN <<prod % Base>> \o BNMulSmall(Tail(a), k, prod \div Base)

\* Carries of a sequence of column sums taken into the next limb.
RECURSIVE BNCarry(_, _)
BNCarry(cols, carry) ==
  IF cols = <<>> THEN (IF carry = 0 THEN <<>> ELSE <<carry>>)
  ELSE <<(Head(cols) + carry) % Base>> \o
       BNCarry(Tail(cols), (Head(cols) + carry) \div Base)

\* The sum of a[i] * b[k + 1 - i] over the limbs from i on: column k of a * b.
RECURSIVE BNColumn(_, _, _, _)
BNColumn(a, b, k, i) ==
  IF i > Len(a) \/ i > k THEN 0
  ELSE (IF k + 1 - i <= Len(b) THEN a[i] * b[k + 1 - i] ELSE 0)
         + BNColumn(a, b, k, i + 1)

\* a * b, for factors of at most four limbs (a column sum stays below 2^31).
BNMul(a, b) ==
  IF a = <<>> \/ b = <<>> THEN <<>>
  ELSE BNNorm(BNCarry([k \in 1..(Len(a) + Len(b) - 1) |-> BNColumn(a, b, k, 1)], 0))

RECURSIVE BitLenInt(_)
BitLenInt(n) == IF n = 0 THEN 0 ELSE 1 + BitLenInt(n \div 2)

BNBitLen(a) ==
  IF a = <<>> THEN 0 ELSE LimbBits * (Len(a) - 1) + BitLenInt(a[Len(a)])

\* Bit i (bit 0 is the least significant) of a.
BNBit(a, i) ==
  LET q == i \div LimbBits
      r == i % LimbBits
  IN IF q + 1 > Len(a) THEN 0 ELSE (a[q + 1] \div (2 ^ r)) % 2

\* Whether a has a set bit below bit k.
BNLowBits(a, k) == \E i \in 0..(k - 1) : BNBit(a, i) = 1

\* floor(a / 2^k)
BNShr(a, k) ==
  LET q == k \div LimbBits
      r == k % LimbBits
      rest == SubSeq(a, q + 1, Len(a))
      limb(i) == (rest[i] \div (2 ^ r)) +
                 (IF i < Len(rest) THEN (rest[i + 1] % (2 ^ r)) * (2 ^ (LimbBits - r))
                                   ELSE 0)
  IN BNNorm([i \in 1..Len(rest) |-> limb(i)])

\* a * 2^k
BNShl(a, k) ==
  LET q == k \div LimbBits
      r == k % LimbBits
      scaled == BNMulSmall(a, 2 ^ r, 0)
  IN IF scaled = <<>> THEN <<>> ELSE [i \in 1..q |-> 0] \o scaled

\* -1, 0, 1 as a < b, a = b, a > b.
RECURSIVE BNCmpFrom(_, _, _)
BNCmpFrom(a, b, i) ==
  IF i = 0 THEN 0
  ELSE IF a[i] < b[i] THEN -1
  ELSE IF a[i] > b[i] THEN 1
  ELSE BNCmpFrom(a, b, i - 1)

BNCmp(a, b) ==
  IF Len(a) < Len(b) THEN -1
  ELSE IF Len(a) > Len(b) THEN 1
  ELSE BNCmpFrom(a, b, Len(a))

FZero == [kind |-> "zero", neg |-> FALSE, m |-> <<>>, e |-> 0]

FNaN == [kind |-> "nan", neg |-> FALSE, m |-> <<>>, e |-> 0]

\* The double nearest to n * 2^e (n > 0), or, with sticky set, to a value
\* strictly between n * 2^e and (n + 1) * 2^e; ties go to the even significand.
FRound(n, e, sticky, neg) ==
  LET len == BNBitLen(n)
  IN IF len <= MantissaBits
     THEN [kind |-> "num", neg |-> neg,
           m |-> BNShl(n, MantissaBits - len), e |-> e - (MantissaBits - len)]
     ELSE LET sh == len - MantissaBits
              q == BNShr(n, sh)
              guard == BNBit(n, sh - 1) = 1
              rest == sticky \/ BNLowBits(n, sh - 1)
              up == guard /\ (rest \/ BNBit(q, 0) = 1)
              m1 == IF up THEN BNAdd(q, <<1>>) ELSE q
          IN IF BNBitLen(m1) > MantissaBits
             THEN [kind |-> "num", neg |-> neg, m |-> BNShr(m1, 1), e |-> e + sh + 1]
             ELSE [kind |-> "num", neg |-> neg, m |-> m1, e |-> e + sh]

\* Limbs of the quotient r / d after the point, most significant first, and
\* the remainder left after them.
RECURSIVE FracLimbs(_, _, _)
FracLimbs(r, d, k) ==
  IF k = 0 THEN [limbs |-> <<>>, rem |-> r]
  ELSE LET next == FracLimbs((r * Base) % d, d, k - 1)
       IN [limbs |-> Append(next.limbs, (r * Base) \div d), rem |-> next.rem]

\* How many limbs of the quotient are computed after the point: enough for
\* a significand and its guard bit whatever the divisor below Base.
QuotientLimbs == 5

\* a / b for integers held in doubles: 0 / 0 is NaN, 0 / b is 0, otherwise
\* the quotient correctly rounded.
FDivInt(a, b) ==
  IF b = 0 THEN FNaN
  ELSE IF a = 0 THEN FZero
  ELSE LET x == IF a < 0 THEN -a ELSE a
           frac == FracLimbs(x % b, b, QuotientLimbs)
           n == BNNorm(frac.limbs \o <<x \div b>>)
       IN FRound(n, -(LimbBits * QuotientLimbs), frac.rem # 0, a < 0)

\* Math.abs
FAbs(x) == [x EXCEPT !.neg = FALSE]

\* x * y, correctly rounded; NaN and zero propagate (no infinities arise).
FMul(x, y) ==
  IF x.kind = "nan" \/ y.kind = "nan" THEN FNaN
  ELSE IF x.kind = "zero" \/ y.kind = "zero" THEN FZero
  ELSE FRound(BNMul(x.m, y.m), x.e + y.e, FALSE, x.neg # y.neg)

\* x + y for x, y >= 0, correctly rounded.
FAdd(x, y) ==
  IF x.kind = "nan" \/ y.kind = "nan" THEN FNaN
  ELSE IF x.kind = "zero" THEN y
  ELSE IF y.kind = "zero" THEN x
  ELSE LET lo == IF x.e <= y.e THEN x ELSE y
           hi == IF x.e <= y.e THEN y ELSE x
       IN FRound(BNAdd(BNShl(hi.m, hi.e - lo.e), lo.m), lo.e, FALSE, FALSE)

\* x > 0: false for NaN, zero and negative numbers.
FPositive(x) == x.kind = "num" /\ ~ x.neg

\* -1, 0, 1 as x < y, x = y, x > y, for x, y >= 0 and not NaN.
FCmp(x, y) ==
  IF x.kind = "zero" THEN (IF y.kind = "zero" THEN 0 ELSE -1)
  ELSE IF y.kind = "zero" THEN 1
  ELSE IF x.e < y.e THEN -1
  ELSE IF x.e > y.e THEN 1
  ELSE BNCmp(x.m, y.m)

\* The double 2: 2^52 * 2^-51.
FTwo == FRound(<<2>>, 0, FALSE, FALSE)

\* Math.PI = 0x1.921fb54442d18p+1
MathPI ==
  [kind |-> "num", neg |-> FALSE, m |-> <<11544, 4368, 8117, 1608>>, e |-> -51]


(***************************************************************************)
(* infocard-ui.ts                                                          *)
(***************************************************************************)

\* Most displayInfocard calls of one behaviour.
MaxCalls == 3

\* Largest absolute size of a type in the childStats of a pie chart input.
MaxStat == 6

\* Node types shown on the container card (directories, files, classes).
CONTAINER_TYPE_SET == {"D", "F", "J"}

\* The rows of the breakdown table, in the order the constructor lists them.
InfoRowTypes == <<"b", "d", "r", "t", "R", "x", "m", "p", "P", "o">>

NoNode == [type |-> "", childStats |-> <<>>]

\* getIconStyle(type).color: the fill of the type's icon.
IconColor(type) == <<"fill", type>>

\* Array.prototype.sort((a, b) => b[1].size - a[1].size): stable, descending
\* by signed size.
RECURSIVE InsertSorted(_, _)
InsertSorted(sorted, x) ==
  IF sorted = <<>> THEN <<x>>
  ELSE IF Head(sorted)[2].size >= x[2].size
       THEN <<Head(sorted)>> \o InsertSorted(Tail(sorted), x)
       ELSE <<x>> \o sorted

RECURSIVE SortEntries(_)
SortEntries(es) ==
  IF es = <<>> THEN <<>>
  ELSE InsertSorted(SortEntries(SubSeq(es, 1, Len(es) - 1)), es[Len(es)])

Abs(n) == IF n < 0 THEN -n ELSE n

RECURSIVE TotalSize(_)
TotalSize(es) ==
  IF es = <<>> THEN 0 ELSE Abs(Head(es)[2].size) + TotalSize(Tail(es))

RECURSIVE RemoveRow(_, _)
RemoveRow(rows, type) ==
  IF rows = <<>> THEN <<>>
  ELSE IF Head(rows).type = type THEN RemoveRow(Tail(rows), type)
  ELSE <<Head(rows)>> \o RemoveRow(Tail(rows), type)

\* _updateBreakdownRow on the row of `type`: no stats or a size of 0 takes
\* the row out of the table body; otherwise its three columns are rewritten
\* and appendChild moves it to the end of the table body.
updateBreakdownRow(rows, type, stats, percentage) ==
  IF stats = <<>> \/ stats[1].size = 0
  THEN RemoveRow(rows, type)
  ELSE Append(RemoveRow(rows, type),
              [type |-> type, count |-> stats[1].count, size |-> stats[1].size,
               percent |-> percentage])

\* Infocard._updateInfocard: size and path of the node, and a new icon when
\* the node's type differs from the last one displayed.
baseUpdateInfocard(card, node) ==
  [card EXCEPT !.shown = node, !.lastType = node.type]

\* A loop that never moves on to the end of the slice it drew.
NextAngleStartStuck(angleStart, angleEnd) == angleStart

\* `angleStart = angleEnd`: the next slice starts where this one ended.
NextAngleStart(angleStart, angleEnd) == angleEnd

\* One round of the loop over statsEntries in ContainerInfocard._updateInfocard.
\* A slice records the arcLength it was drawn for.
SliceStep(card, entry, totalSize, diff) ==
  LET type == entry[1]
      stats == entry[2]
      percentage == FDivInt(stats.size, totalSize)
      rows == updateBreakdownRow(card.tableRows, type, <<stats>>, percentage)
      arcLength == FMul(FMul(FAbs(percentage), FTwo), MathPI)
  IN IF FPositive(arcLength)
     THEN LET angleEnd == FAdd(card.angleStart, arcLength)
          IN [card EXCEPT
                !.tableRows = rows,
                !.slices = Append(@, [type |-> type, angleStart |-> card.angleStart,
                                      angleEnd |-> angleEnd, arcLength |-> arcLength,
                                      fillColor |-> IconColor(type)]),
                !.borders =
                   IF diff
                   THEN Append(@, [angleStart |-> card.angleStart,
                                   angleEnd |-> angleEnd,
                                   strokeColor |-> IF stats.size > 0 THEN "#ea4335"
                                                                     ELSE "#34a853",
                                   lineWidth |-> 16])
                   ELSE @,
                !.angleStart = NextAngleStart(card.angleStart, angleEnd)]
     ELSE [card EXCEPT !.tableRows = rows]

RECURSIVE SliceLoop(_, _, _, _)
SliceLoop(card, es, totalSize, diff) ==
  IF es = <<>> THEN card
  ELSE SliceLoop(SliceStep(card, Head(es), totalSize, diff), Tail(es), totalSize, diff)

\* An update that leaves the rows of the unused types where they are.
HideLoopSkipped(rows, types, used) == rows

\* "Hide unused types": the rows of the types the node has no stats for.
RECURSIVE HideLoop(_, _, _)
HideLoop(rows, types, used) ==
  IF types = <<>> THEN rows
  ELSE HideLoop(IF Head(types) \in used THEN rows
                ELSE updateBreakdownRow(rows, Head(types), <<>>, FZero),
                Tail(types), used)

\* An update that draws the borders whether or not diff_mode is set.
containerUpdateInfocardAlwaysBorder(card, node, diff) ==
  LET statsEntries == SortEntries(node.childStats)
      totalSize == TotalSize(statsEntries)
      fresh == [baseUpdateInfocard(card, node) EXCEPT
                  !.slices = <<>>, !.borders = <<>>, !.angleStart = FZero]
      drawn == SliceLoop(fresh, statsEntries, totalSize, TRUE)
      used == { statsEntries[i][1] : i \in 1..Len(statsEntries) }
  IN [drawn EXCEPT !.tableRows = HideLoop(@, InfoRowTypes, used)]

\* ContainerInfocard._updateInfocard.  slices and borders are the draw calls
\* of this update, in order; angleStart is the loop's running angle.
containerUpdateInfocard(card, node, diff) ==
  LET statsEntries == SortEntries(node.childStats)
      totalSize == TotalSize(statsEntries)
      fresh == [baseUpdateInfocard(card, node) EXCEPT
                  !.slices = <<>>, !.borders = <<>>, !.angleStart = FZero]
      drawn == SliceLoop(fresh, statsEntries, totalSize, diff)
      used == { statsEntries[i][1] : i \in 1..Len(statsEntries) }
  IN [drawn EXCEPT !.tableRows = HideLoop(@, InfoRowTypes, used)]

\* requestAnimationFrame: the callback joins the list under a new handle.
requestAnimationFrame(callbacks, handle, card, node) ==
  Append(callbacks, [handle |-> handle, card |-> card, node |-> node])

\* An updateInfocard that never cancels the frame it superseded.
cancelAnimationFrameForgotten(callbacks, handle) == callbacks

\* cancelAnimationFrame: the callback of that handle, if still listed, leaves
\* the list; an unknown or undefined handle changes nothing.
cancelAnimationFrame(callbacks, handle) ==
  SelectSeq(callbacks, LAMBDA c : c.handle # handle)

\* A setHidden that leaves the card as the markup had it.
setHiddenIgnored(card, isHidden) == card

\* Infocard.setHidden
setHidden(card, isHidden) == [card EXCEPT !.hidden = isHidden]

\* The frame callback `() => this._updateInfocard(node)` of either card.
RunCallback(cards, callback, diff) ==
  IF callback.card = "container"
  THEN [cards EXCEPT !.container = containerUpdateInfocard(@, callback.node, diff)]
  ELSE [cards EXCEPT !.symbol = baseUpdateInfocard(@, callback.node)]

RECURSIVE RunCallbacks(_, _, _)
RunCallbacks(cards, callbacks, diff) ==
  IF callbacks = <<>> THEN cards
  ELSE RunCallbacks(RunCallback(cards, Head(callbacks), diff), Tail(callbacks), diff)

(***************************************************************************)
(* The nodes handed to displayInfocard.  childStats is the list of         *)
(* Object.entries(node.childStats): [type, {size, count}] in insertion     *)
(* order, each type once.  A node's type is one character, its own [0].    *)
(***************************************************************************)
StatsEntries(types, sizes) ==
  { <<t, [size |-> n, count |-> 1]>> : t \in types, n \in sizes }

ChildStats(types, sizes) ==
  { es \in SeqsUpTo(StatsEntries(types, sizes), Cardinality(types)) :
      \A i, j \in 1..Len(es) : es[i][1] = es[j][1] => i = j }

\* The lists in which the types come in the order of the table's rows.
InRowOrder(es) ==
  \A i, j \in 1..Len(es) :
    i < j => \E a, b \in 1..Len(InfoRowTypes) :
               a < b /\ InfoRowTypes[a] = es[i][1] /\ InfoRowTypes[b] = es[j][1]

CardTypes == {"t", "r"}

CardSizes == {-2, 0, 1}

\* For the cards: container nodes (childStats in either insertion order when
\* the sizes differ in sign) and a symbol node.
CardNodes ==
  [type : {"D"},
   childStats : { es \in ChildStats(CardTypes, CardSizes) :
                    InRowOrder(es) \/ \E i \in 1..Len(es) : es[i][2].size < 0 }]
    \cup [type : {"t"}, childStats : { <<>> }]

PieTypes == {"t", "r", "b"}

\* For the pie chart: a wider range of sizes, the types in row order.
PieChildStats ==
  { es \in ChildStats(PieTypes, (-MaxStat)..MaxStat) : InRowOrder(es) }

PieNodes == [type : {"D"}, childStats : PieChildStats]

InitialRows ==
  [i \in 1..Len(InfoRowTypes) |->
     [type |-> InfoRowTypes[i], count |-> 0, size |-> 0, percent |-> FZero]]

\* The page as loaded: every row in the table, nothing drawn, no frame asked
\* for.  Which card the markup hides and whether the query string sets
\* diff_mode are not the script's choice.
PageLoaded(containerHidden, symbolHidden, diff) ==
  /\ pendingFrame = 0
  /\ nextHandle = 1
  /\ frameCallbacks = <<>>
  /\ diffMode = diff
  /\ containerCard = [hidden |-> containerHidden, lastType |-> "", shown |-> NoNode,
                      tableRows |-> InitialRows, slices |-> <<>>, borders |-> <<>>,
                      angleStart |-> FZero]
  /\ symbolCard = [hidden |-> symbolHidden, lastType |-> "", shown |-> NoNode]
  /\ lastCall = [card |-> "", node |-> NoNode]
  /\ ranLog = <<>>
  /\ cancelled = {}
  /\ everRan = {}

CardInit == \E ch, sh, diff \in BOOLEAN : PageLoaded(ch, sh, diff)

\* displayInfocard(node): updateInfocard on the card of the node's kind
\* (cancel the pending frame, request a new one), show it, hide the other.
DisplayInfocard ==
  /\ nextHandle <= MaxCalls
  /\ \E node \in CardNodes :
       LET card == IF node.type \in CONTAINER_TYPE_SET THEN "container" ELSE "symbol"
           kept == cancelAnimationFrame(frameCallbacks, pendingFrame)
       IN /\ frameCallbacks' = requestAnimationFrame(kept, nextHandle, card, node)
          /\ cancelled' = cancelled \cup
               { c \in { [handle |-> frameCallbacks[i].handle,
                            card |-> frameCallbacks[i].card] :
                             i \in 1..Len(frameCallbacks) } :
                   \A i \in 1..Len(kept) : kept[i].handle # c.handle }
          /\ lastCall' = [card |-> card, node |-> node]
          /\ containerCard' = setHidden(containerCard, card # "container")
          /\ symbolCard' = setHidden(symbolCard, card = "container")
  /\ pendingFrame' = nextHandle
  /\ nextHandle' = nextHandle + 1
  /\ UNCHANGED <<diffMode, ranLog, everRan>>
  /\ UNCHANGED streamVars

\* A display refresh: the browser runs the listed callbacks in order and the
\* list is empty again.  Infocard._pendingFrame keeps its (now stale) handle.
\* ranLog notes, for each callback run, the call that was the latest and the
\* types whose rows were in the table before the refresh.
AnimationFrame ==
  /\ frameCallbacks # <<>>
  /\ LET cards == RunCallbacks([container |-> containerCard, symbol |-> symbolCard],
                               frameCallbacks, diffMode)
     IN /\ containerCard' = cards.container
        /\ symbolCard' = cards.symbol
  /\ ranLog' = [i \in 1..Len(frameCallbacks) |->
                  [handle |-> frameCallbacks[i].handle, card |-> frameCallbacks[i].card,
                   node |-> frameCallbacks[i].node, last |-> lastCall,
                   rowsBefore |-> { containerCard.tableRows[k].type :
                                      k \in 1..Len(containerCard.tableRows) }]]
  /\ everRan' = everRan \cup { frameCallbacks[i].handle : i \in 1..Len(frameCallbacks) }
  /\ frameCallbacks' = <<>>
  /\ UNCHANGED <<pendingFrame, nextHandle, diffMode, lastCall, cancelled>>
  /\ UNCHANGED streamVars

\* state.set('diff_mode', ...) or a change of the options form.
SetDiffMode ==
  /\ diffMode' = ~ diffMode
  /\ UNCHANGED <<pendingFrame, nextHandle, frameCallbacks, containerCard, symbolCard,
                 lastCall, ranLog, cancelled, everRan>>
  /\ UNCHANGED streamVars

CardNext ==
  \/ DisplayInfocard
  \/ AnimationFrame
  \/ SetDiffMode

(***************************************************************************)
(* Specifications: the report stream, the info cards, and the first frame  *)
(* of the container card over a wider range of childStats.                 *)
(***************************************************************************)
\* The report stream runs on a page whose cards are left alone.
Init == StreamInit /\ PageLoaded(TRUE, TRUE, FALSE)

Next == StreamNext

Spec == Init /\ [][Next]_vars

CardSpecInit == StreamInit /\ CardInit

CardSpec == CardSpecInit /\ [][CardNext]_vars

\* The state right after the first displayInfocard(node), node a container.
PieInit ==
  /\ StreamInit
  /\ diffMode \in BOOLEAN
  /\ \E node \in PieNodes :
       /\ frameCallbacks = <<[handle |-> 1, card |-> "container", node |-> node]>>
       /\ lastCall = [card |-> "container", node |-> node]
  /\ pendingFrame = 1
  /\ nextHandle = 2
  /\ containerCard = [hidden |-> FALSE, lastType |-> "", shown |-> NoNode,
                      tableRows |-> InitialRows, slices |-> <<>>, borders |-> <<>>,
                      angleStart |-> FZero]
  /\ symbolCard = [hidden |-> TRUE, lastType |-> "", shown |-> NoNode]
  /\ ranLog = <<>>
  /\ cancelled = {}
  /\ everRan = {}

PieNext == AnimationFrame

PieSpec == PieInit /\ [][PieNext]_vars

(***************************************************************************)
(* Properties of the report stream                                         *)
(***************************************************************************)

PathsOf(snapshot) == { snapshot[i].path : i \in 1..Len(snapshot) }

\* In how many entries of a group of files a path occurs.
CountPath(group, path) ==
  Cardinality({ i \in 1..Len(group) : group[i].path = path })

\* In how many group entries a path occurs (a changed pair is one entry).
Occurrences(path, c) ==
  CountPath(c.newItems, path) + CountPath(c.deletedItems, path)
    + CountPath(c.sameItems, path)
    + Cardinality({ i \in 1..Len(c.changedItems) :
                      \/ c.changedItems[i][1].path = path
                      \/ c.changedItems[i][2].path = path })

Diffed == pc \in {"yielding", "done"}

\* The records yielded so far (everything after the header).
Emitted == SubSeq(out, 2, Len(out))

\* Where each group's records start in the emitted sequence (0-based offset).
DeletedAt == Len(changes.newItems)
SameAt == DeletedAt + Len(changes.deletedItems)
ChangedAt == SameAt + Len(changes.sameItems)

\* C1: once two listings with unique paths are diffed, every path of the
\* previous or the current listing is in exactly one of the four groups
\* added, removed, unchanged, changed.
C1_Partition ==
  Diffed =>
    \A path \in PathsOf(previous) \cup PathsOf(current) :
      Occurrences(path, changes) = 1

C1_Witness ==
  /\ Diffed
  /\ Len(changes.changedItems) = 1
  /\ Len(changes.deletedItems) + Len(changes.newItems) = 1

\* C2: the header's total is |added| + |removed| + |unchanged| + the number
\* of changed pairs, and a finished stream has emitted exactly that many
\* records after the header (never more on the way).
C2_Totals ==
  Diffed =>
    /\ meta.total = Len(changes.newItems) + Len(changes.deletedItems)
                      + Len(changes.sameItems) + Len(changes.changedItems)
    /\ Len(Emitted) <= meta.total
    /\ pc = "done" => Len(Emitted) = meta.total

C2_Witness ==
  /\ pc = "done"
  /\ Len(changes.changedItems) = 1
  /\ Len(changes.sameItems) = 1
  /\ Len(Emitted) = 2

IsHeader(x) == DOMAIN x = {"total", "diff_mode"}

IsRecord(x) == DOMAIN x = {"p", "s"}

\* C3: the first element produced is the header {total, diff_mode: true},
\* every later element is a record, no more than total records follow it, a
\* stream that has returned produced exactly total records, and after the
\* total-th record the only step left is the return.
C3_HeaderFirst ==
  /\ out # <<>> =>
       /\ IsHeader(out[1]) /\ out[1].diff_mode = TRUE
       /\ \A i \in 2..Len(out) : IsRecord(out[i])
       /\ Len(out) <= 1 + out[1].total
       /\ Len(out) = 1 + out[1].total => ~ ENABLED YieldEntry
       /\ Len(out) < 1 + out[1].total => pc = "yielding" /\ ~ ENABLED Return
  /\ pc = "done" => out # <<>> /\ Len(out) = 1 + out[1].total

C3_Witness == pc = "done" /\ Len(out) = 3

\* C4: a run in which fewer than two builds were resolved, or in which a
\* fetch failed, ends in the error state having yielded nothing.
C4_NoPartialOutput ==
  /\ builds \in {0, 1} => pc = "error"
  /\ pc = "error" => out = <<>>

C4_Witness == pc = "error" /\ builds = 1

\* C5: the record emitted for the i-th changed pair (old, new) has
\* b = new.size - old.size, g = new.gzipSize - old.gzipSize, u = 1 and the
\* path and display name of new.
C5_ChangedDelta ==
  Diffed =>
    \A i \in 1..Len(changes.changedItems) :
      ChangedAt + i <= Len(Emitted) =>
        LET old == changes.changedItems[i][1]
            new == changes.changedItems[i][2]
            r == Emitted[ChangedAt + i]
        IN /\ r.p = new.path
           /\ Len(r.s) = 1
           /\ r.s[1].n = basename(new.path)
           /\ r.s[1].b = new.size - old.size
           /\ r.s[1].g = new.gzipSize - old.gzipSize
           /\ r.s[1].u = 1

\* A pair whose size shrank while its compressed size stayed, emitted.
C5_Witness ==
  /\ pc = "done"
  /\ \E i \in 1..Len(changes.changedItems) :
       /\ changes.changedItems[i][2].size < changes.changedItems[i][1].size
       /\ changes.changedItems[i][2].gzipSize = changes.changedItems[i][1].gzipSize
       /\ Emitted[ChangedAt + i].s[1].b = -1

\* C6: the record emitted for a file present only in current has b = +size,
\* g = +gzipSize and u = 1.
C6_AddedSign ==
  Diffed =>
    \A i \in 1..Len(Emitted) :
      Emitted[i].p \in PathsOf(current) \ PathsOf(previous) =>
        \E f \in FileData :
          /\ \E k \in 1..Len(current) : current[k] = f
          /\ f.path = Emitted[i].p
          /\ Emitted[i].s[1].b = f.size
          /\ Emitted[i].s[1].g = f.gzipSize
          /\ Emitted[i].s[1].u = 1

C6_Witness ==
  /\ pc = "done"
  /\ \E i \in 1..Len(Emitted) :
       /\ Emitted[i].p \in PathsOf(current) \ PathsOf(previous)
       /\ Emitted[i].s[1].b = 1
       /\ Emitted[i].s[1].g = 0

\* C7: the record emitted for a file present only in previous has b = -size,
\* g = -gzipSize and u = -1, and u = -1 occurs in no other record.
C7_RemovedSign ==
  Diffed =>
    \A i \in 1..Len(Emitted) :
      /\ Emitted[i].p \in PathsOf(previous) \ PathsOf(current) =>
           \E k \in 1..Len(previous) :
             /\ previous[k].path = Emitted[i].p
             /\ Emitted[i].s[1].b = - previous[k].size
             /\ Emitted[i].s[1].g = - previous[k].gzipSize
             /\ Emitted[i].s[1].u = -1
      /\ Emitted[i].s[1].u = -1 =>
           Emitted[i].p \in PathsOf(previous) \ PathsOf(current)

C7_Witness ==
  /\ pc = "done"
  /\ \E i, j \in 1..Len(Emitted) :
       /\ Emitted[i].p \in PathsOf(previous) \ PathsOf(current)
       /\ Emitted[i].s[1].b = -1
       /\ Emitted[j].s[1].u = 1

SameFiles(a, b) ==
  { a[i] : i \in 1..Len(a) } = { b[i] : i \in 1..Len(b) }

\* C8: diffing a listing against one with the same paths and the same sizes
\* gives no added, removed or changed entry, as many unchanged entries as
\* the listing has files, and only records with b = 0, g = 0 and u = 1.
C8_IdenticalSnapshots ==
  Diffed /\ SameFiles(previous, current) =>
    /\ changes.newItems = <<>>
    /\ changes.deletedItems = <<>>
    /\ changes.changedItems = <<>>
    /\ Len(changes.sameItems) = Len(current)
    /\ Len(entries) = Len(current)
    /\ \A i \in 1..Len(Emitted) :
         /\ Emitted[i].s[1].b = 0
         /\ Emitted[i].s[1].g = 0
         /\ Emitted[i].s[1].u = 1
    /\ pc = "done" => Len(Emitted) = Len(current)

\* Two files of non-zero size, listed in a different order in each build.
C8_Witness ==
  /\ pc = "done"
  /\ SameFiles(previous, current)
  /\ previous # current
  /\ Len(Emitted) = 2
  /\ \A k \in 1..Len(current) : current[k].size = 1

(***************************************************************************)
(* Properties of the info cards                                            *)
(***************************************************************************)

Handles(callbacks) == { callbacks[i].handle : i \in 1..Len(callbacks) }

\* C9: updateInfocard calls between two refreshes, on either card, leave at
\* most one callback queued, the one of the latest call; a refresh runs at
\* most one _updateInfocard, for the node and card of the latest call; every
\* handle issued is queued, cancelled or run, and none cancelled ever runs.
C9_Coalesced ==
  /\ Len(frameCallbacks) <= 1
  /\ \A i \in 1..Len(frameCallbacks) :
       /\ frameCallbacks[i].handle = pendingFrame
       /\ frameCallbacks[i].node = lastCall.node
       /\ frameCallbacks[i].card = lastCall.card
  /\ Len(ranLog) <= 1
  /\ \A i \in 1..Len(ranLog) :
       /\ ranLog[i].node = ranLog[i].last.node
       /\ ranLog[i].card = ranLog[i].last.card
  /\ { c.handle : c \in cancelled } \cap everRan = {}
  /\ \A h \in 1..(nextHandle - 1) :
       Cardinality({ x \in {"queued", "cancelled", "ran"} :
                       \/ x = "queued" /\ h \in Handles(frameCallbacks)
                       \/ x = "cancelled" /\ h \in { c.handle : c \in cancelled }
                       \/ x = "ran" /\ h \in everRan }) = 1

\* Three calls before one refresh, the first on the container card: only
\* the third, on the symbol card, ran.
C9_Witness ==
  /\ [handle |-> 1, card |-> "container"] \in cancelled
  /\ Cardinality(cancelled) = 2
  /\ everRan = {3}
  /\ Len(ranLog) = 1
  /\ ranLog[1].card = "symbol"

\* 2 * Math.PI
TwoPi == FMul(FTwo, MathPI)

\* The double k units in the last place above x (within x's binade).
UlpsAbove(x, k) == [x EXCEPT !.m = BNAdd(@, IF k = 0 THEN <<>> ELSE <<k>>)]

\* |x - y| is at most k units in the last place of y.
WithinUlps(x, y, k) ==
  /\ x.kind = "num" /\ x.e = y.e
  /\ \E j \in 0..k : UlpsAbove(x, j).m = y.m \/ UlpsAbove(y, j).m = x.m

\* |arc * total - 2pi * |size|| <= 2^-51 * 2pi * |size|, in exact arithmetic.
ArcIsShare(arc, size, total) ==
  LET a0 == BNMulSmall(arc.m, total, 0)
      b0 == BNMulSmall(TwoPi.m, Abs(size), 0)
      low == IF arc.e < TwoPi.e THEN arc.e ELSE TwoPi.e
      a == BNShl(a0, arc.e - low)
      b == BNShl(b0, TwoPi.e - low)
      tol == BNShr(b, 51)
  IN /\ BNCmp(a, BNAdd(b, tol)) <= 0
     /\ BNCmp(b, BNAdd(a, tol)) <= 0

PieDrawn == ranLog # <<>> /\ ranLog[1].card = "container"

PieStats == SortEntries(containerCard.shown.childStats)

PieTotal == TotalSize(PieStats)

StatSize(type) ==
  LET i == CHOOSE i \in 1..Len(PieStats) : PieStats[i][1] = type
  IN PieStats[i][2].size

Slices == containerCard.slices

\* What holds of the layout in doubles as in real numbers: the first slice
\* starts at 0, each next one where the previous ended, no slice runs
\* backwards, and the slices are those of the types of non-zero size.
PieContiguous ==
  /\ Slices # <<>> => Slices[1].angleStart = FZero
  /\ \A i \in 1..(Len(Slices) - 1) : Slices[i + 1].angleStart = Slices[i].angleEnd
  /\ \A i \in 1..Len(Slices) : FCmp(Slices[i].angleStart, Slices[i].angleEnd) <= 0
  /\ Len(Slices) = Cardinality({ i \in 1..Len(PieStats) : PieStats[i][2].size # 0 })
  /\ Slices # <<>> => containerCard.angleStart = Slices[Len(Slices)].angleEnd

\* C10 as stated: the layout is contiguous from 0, the running angle never
\* exceeds 2 pi, and with a type of non-zero size it ends at exactly 2 pi.
C10_ExactlyTwoPi ==
  PieDrawn =>
    /\ PieContiguous
    /\ \A i \in 1..Len(Slices) : FCmp(Slices[i].angleEnd, TwoPi) <= 0
    /\ PieTotal # 0 => containerCard.angleStart = TwoPi

\* C10, amended: the layout is contiguous from 0 and never runs backwards;
\* each arc is 2 pi * |size| / total up to the rounding of doubles; after k
\* slices the running angle is at most k + 1 units in the last place above
\* 2 pi, and with a type of non-zero size the final angle is within n + 1
\* such units of 2 pi, n the number of slices.  For sizes in the ratio 3 : 1
\* (childStats {t: 300, r: 100}) the fractions are exactly 0.75 and 0.25 and
\* the final angle is exactly 2 pi.
C10_TwoPiUpToRounding ==
  PieDrawn =>
    /\ PieContiguous
    /\ \A i \in 1..Len(Slices) :
         /\ ArcIsShare(Slices[i].arcLength, StatSize(Slices[i].type), PieTotal)
         /\ FCmp(Slices[i].angleEnd, UlpsAbove(TwoPi, i + 1)) <= 0
    /\ PieTotal # 0 => WithinUlps(containerCard.angleStart, TwoPi, Len(Slices) + 1)
    /\ \A i, j \in 1..Len(PieStats) :
         PieStats[i][2].size = 3 /\ PieStats[j][2].size = 1 /\ PieTotal = 4 =>
           /\ \E row \in { containerCard.tableRows[k] :
                             k \in 1..Len(containerCard.tableRows) } :
                row.type = PieStats[i][1] /\ row.percent = FRound(<<3>>, -2, FALSE, FALSE)
           /\ \E row \in { containerCard.tableRows[k] :
                             k \in 1..Len(containerCard.tableRows) } :
                row.type = PieStats[j][1] /\ row.percent = FRound(<<1>>, -2, FALSE, FALSE)
           /\ containerCard.angleStart = TwoPi

\* Three slices whose angles add up to one unit in the last place above 2 pi.
C10_Witness ==
  /\ PieDrawn
  /\ Len(Slices) = 3
  /\ containerCard.angleStart = UlpsAbove(TwoPi, 1)

Rows == containerCard.tableRows

RowTypes(rows) == { rows[k].type : k \in 1..Len(rows) }

\* C11: in every container update, differential mode included, the types are
\* processed in descending order of absolute size: the slices are drawn in
\* that order and the rows are appended to the table in that order.  (A size
\* is negative only in a differential report.)
C11_AbsoluteOrder ==
  PieDrawn /\ (diffMode \/ \A i \in 1..Len(PieStats) : PieStats[i][2].size >= 0) =>
    /\ \A i, j \in 1..Len(Slices) :
         i < j => Abs(StatSize(Slices[i].type)) >= Abs(StatSize(Slices[j].type))
    /\ \A i, j \in 1..Len(Rows) :
         i < j => Abs(Rows[i].size) >= Abs(Rows[j].size)

\* C12: after any sequence of container updates the rows in the table are
\* exactly the types the last node's childStats give a non-zero size, each
\* once and with the size and count of that node, whatever rows the table
\* had before.
C12_RowsOfLastNode ==
  containerCard.shown # NoNode =>
    LET es == containerCard.shown.childStats
    IN /\ RowTypes(Rows) = { es[i][1] : i \in { k \in 1..Len(es) : es[k][2].size # 0 } }
       /\ Cardinality(RowTypes(Rows)) = Len(Rows)
       /\ \A k \in 1..Len(Rows) :
            \E i \in 1..Len(es) :
              /\ es[i][1] = Rows[k].type
              /\ es[i][2].size = Rows[k].size
              /\ es[i][2].count = Rows[k].count

\* A second container update took out the row of "t" that the first one had
\* shown and put in the row of "r" that the first one had taken out.
C12_Witness ==
  /\ everRan = {1, 2}
  /\ ranLog # <<>>
  /\ ranLog[1].card = "container"
  /\ ranLog[1].rowsBefore = {"t"}
  /\ RowTypes(Rows) = {"r"}

Borders == containerCard.borders

\* C13: with diff_mode set, every slice drawn (the slices are those of the
\* types of non-zero size) gets one border, over the slice's own start and
\* end angles, 16 wide, red when the type's size is above 0 and green when it
\* is below 0; without diff_mode no border is drawn.
C13_Borders ==
  PieDrawn =>
    /\ Len(Slices) = Cardinality({ i \in 1..Len(PieStats) : PieStats[i][2].size # 0 })
    /\ ~ diffMode => Borders = <<>>
    /\ diffMode =>
         /\ Len(Borders) = Len(Slices)
         /\ \A i \in 1..Len(Borders) :
              /\ Borders[i].angleStart = Slices[i].angleStart
              /\ Borders[i].angleEnd = Slices[i].angleEnd
              /\ Borders[i].lineWidth = 16
              /\ StatSize(Slices[i].type) > 0 => Borders[i].strokeColor = "#ea4335"
              /\ StatSize(Slices[i].type) < 0 => Borders[i].strokeColor = "#34a853"
              /\ StatSize(Slices[i].type) # 0

\* A differential update with a type of size 0, one that grew and one that
\* shrank: two borders, the red one first.
C13_Witness ==
  /\ PieDrawn
  /\ diffMode
  /\ Len(PieStats) = 3
  /\ Len(Borders) = 2
  /\ Borders[1].strokeColor = "#ea4335"
  /\ Borders[2].strokeColor = "#34a853"

\* The group of the ComparisonResult a path belongs to (1 added, 2 removed,
\* 3 unchanged, 4 changed; 0 for a path of no group) and its place there.
GroupPaths(g) ==
  IF g = 1 THEN [i \in 1..Len(changes.newItems) |-> changes.newItems[i].path]
  ELSE IF g = 2 THEN [i \in 1..Len(changes.deletedItems) |-> changes.deletedItems[i].path]
  ELSE IF g = 3 THEN [i \in 1..Len(changes.sameItems) |-> changes.sameItems[i].path]
  ELSE [i \in 1..Len(changes.changedItems) |-> changes.changedItems[i][2].path]

InGroup(path, g) == \E i \in 1..Len(GroupPaths(g)) : GroupPaths(g)[i] = path

GroupOf(path) ==
  IF \E g \in 1..4 : InGroup(path, g)
  THEN CHOOSE g \in 1..4 : InGroup(path, g)
  ELSE 0

PlaceIn(path, g) == CHOOSE i \in 1..Len(GroupPaths(g)) : GroupPaths(g)[i] = path

\* C14: of any two records emitted, the earlier one is of an earlier group
\* (added, removed, unchanged, changed) or of the same group and earlier in
\* that group's list of the ComparisonResult; once the generator returned,
\* every entry of every group has been emitted.
C14_GroupOrder ==
  /\ \A i \in 1..Len(Emitted) : GroupOf(Emitted[i].p) # 0
  /\ \A i, j \in 1..Len(Emitted) :
       i < j =>
         \/ GroupOf(Emitted[i].p) < GroupOf(Emitted[j].p)
         \/ /\ GroupOf(Emitted[i].p) = GroupOf(Emitted[j].p)
            /\ PlaceIn(Emitted[i].p, GroupOf(Emitted[i].p))
                 < PlaceIn(Emitted[j].p, GroupOf(Emitted[j].p))
  /\ pc = "done" =>
       \A g \in 1..4 : \A k \in 1..Len(GroupPaths(g)) :
         \E i \in 1..Len(Emitted) : Emitted[i].p = GroupPaths(g)[k]

\* A removed record followed by a changed one, all emitted.
C14_Witness ==
  /\ pc = "done"
  /\ Len(Emitted) = 2
  /\ GroupOf(Emitted[1].p) = 2
  /\ GroupOf(Emitted[2].p) = 4

\* C15: once displayInfocard was called, one card is hidden and the other is
\* not, the container card being the one shown exactly when the last node's
\* type is a container type; and when the refresh asked for by the last call
\* has run, the card shown displays the node of that call.
C15_OneCardShown ==
  lastCall.card # "" =>
    /\ containerCard.hidden # symbolCard.hidden
    /\ ~ containerCard.hidden <=> lastCall.node.type \in CONTAINER_TYPE_SET
    /\ ~ containerCard.hidden <=> lastCall.card = "container"
    /\ frameCallbacks = <<>> =>
         /\ ~ containerCard.hidden => containerCard.shown = lastCall.node
         /\ ~ symbolCard.hidden => symbolCard.shown = lastCall.node

\* A call for a container node was cancelled by a call for a symbol; after
\* the refresh the symbol card is the one shown, with the symbol, and the
\* container card never displayed the cancelled node.
C15_Witness ==
  /\ [handle |-> 1, card |-> "container"] \in cancelled
  /\ everRan = {2}
  /\ frameCallbacks = <<>>
  /\ containerCard.hidden
  /\ ~ symbolCard.hidden
  /\ symbolCard.shown = lastCall.node
  /\ containerCard.shown = NoNode

====
